---- MODULE Spec2Model ----
(***************************************************************************)
(* Connectivity / session lifecycle engine of the Discord voice status     *)
(* light (src/src/main.cpp): WiFi link policy chain, WebSocket session     *)
(* setup and authentication, reconnect pacing and OTA dispatch.            *)
(*                                                                         *)
(* Strings the code slices or trims are sequences of one-character         *)
(* strings; strings the code only compares are TLA+ strings.               *)
(***************************************************************************)
EXTENDS Integers, Sequences, FiniteSets, TLC

\* ------------------------------------------------------------------------
\* Program constants
\* ------------------------------------------------------------------------
MAX_AUTH_FAILURES == 3
WS_RECONNECT_MS == 5000
WIFI_CONNECT_TRIES == 4
\* uint32_t values are pairs [hi, lo] of 16-bit halves (value hi * 2^16 + lo)
Half16 == 65536
PortMax == 65535

U32(n) == [hi |-> n \div Half16, lo |-> n % Half16]

\* a - b in uint32_t arithmetic
U32Sub(a, b) ==
  LET lo == a.lo - b.lo
      borrow == IF lo < 0 THEN 1 ELSE 0
  IN [hi |-> (a.hi - b.hi - borrow) % Half16, lo |-> lo % Half16]

\* a >= n for a uint32_t a and a constant n
U32Geq(a, n) == a.hi > n \div Half16 \/ (a.hi = n \div Half16 /\ a.lo >= n % Half16)

Zero32 == U32(0)
Never == [hi |-> -1, lo |-> -1]

\* ------------------------------------------------------------------------
\* Bounds of the model
\* ------------------------------------------------------------------------
\* the clock is observed at multiples of TickMs inside two windows: the
\* first ClockWindow ticks after a boot or a wrap, and the last PreWrap
\* ticks before the 32-bit wrap
TickMs == 2500
ClockWindow == 2
PreWrap == 1

\* ------------------------------------------------------------------------
\* Arduino String helpers
\* ------------------------------------------------------------------------
IsSpace(c) == c = " "

IsDigit(c) == c \in {"0", "1", "2", "3", "4", "5", "6", "7", "8", "9"}

DigitVal(c) ==
  CASE c = "0" -> 0 [] c = "1" -> 1 [] c = "2" -> 2 [] c = "3" -> 3
    [] c = "4" -> 4 [] c = "5" -> 5 [] c = "6" -> 6 [] c = "7" -> 7
    [] c = "8" -> 8 [] c = "9" -> 9

\* String::substring(from) and String::substring(from, to), 0-based, to exclusive
SubstringFrom(s, from) ==
  IF from >= Len(s) THEN << >> ELSE SubSeq(s, from + 1, Len(s))

Substring(s, from, to) ==
  IF from >= to THEN << >> ELSE SubSeq(s, from + 1, IF to > Len(s) THEN Len(s) ELSE to)

StartsWith(s, p) == Len(s) >= Len(p) /\ SubSeq(s, 1, Len(p)) = p

\* String::indexOf(ch): 0-based index of the first occurrence, -1 if none
IndexOf(s, ch) ==
  IF \E i \in 1..Len(s) : s[i] = ch
  THEN (CHOOSE i \in 1..Len(s) : s[i] = ch /\ \A j \in 1..(i - 1) : s[j] # ch) - 1
  ELSE -1

\* String::trim(): drops leading and trailing whitespace
Trim(s) ==
  IF \A i \in 1..Len(s) : IsSpace(s[i]) THEN << >>
  ELSE LET first == CHOOSE i \in 1..Len(s) :
                      ~IsSpace(s[i]) /\ \A j \in 1..(i - 1) : IsSpace(s[j])
           last == CHOOSE i \in 1..Len(s) :
                      ~IsSpace(s[i]) /\ \A j \in (i + 1)..Len(s) : IsSpace(s[j])
       IN SubSeq(s, first, last)

\* String::toInt() (atol): skips leading whitespace, takes an optional sign
\* and the leading run of digits, 0 when there is none
RECURSIVE DigitsValue(_, _)
DigitsValue(s, acc) ==
  IF s = << >> \/ ~IsDigit(Head(s)) THEN acc
  ELSE DigitsValue(Tail(s), acc * 10 + DigitVal(Head(s)))

RECURSIVE SkipSpace(_)
SkipSpace(s) == IF s # << >> /\ IsSpace(Head(s)) THEN SkipSpace(Tail(s)) ELSE s

ToInt(s) ==
  LET t == SkipSpace(s)
  IN IF t # << >> /\ Head(t) = "-" THEN 0 - DigitsValue(Tail(t), 0)
     ELSE IF t # << >> /\ Head(t) = "+" THEN DigitsValue(Tail(t), 0)
     ELSE DigitsValue(t, 0)

\* ------------------------------------------------------------------------
\* parseWsUrl
\* ------------------------------------------------------------------------
SchemeWs == <<"w", "s", ":", "/", "/">>
SchemeWss == <<"w", "s", "s", ":", "/", "/">>

NoParts == [ok |-> FALSE, secure |-> FALSE, host |-> << >>, port |-> 0, path |-> << >>]

parseWsUrl(url) ==
  LET split(secure, hostPort, path0) ==
        LET colon == IndexOf(hostPort, ":")
            host == IF colon >= 0 THEN Substring(hostPort, 0, colon) ELSE hostPort
            p == IF colon >= 0 THEN ToInt(SubstringFrom(hostPort, colon + 1))
                 ELSE IF secure THEN 443 ELSE 80
            path == IF StartsWith(path0, <<"/">>) THEN path0 ELSE <<"/">> \o path0
        IN IF colon >= 0 /\ (p <= 0 \/ p > PortMax) THEN NoParts
           ELSE IF Len(host) = 0 THEN NoParts
           ELSE [ok |-> TRUE, secure |-> secure, host |-> host, port |-> p,
                 path |-> path]
      authority(secure, u) ==
        LET slash == IndexOf(u, "/")
        IN split(secure,
                 IF slash >= 0 THEN Substring(u, 0, slash) ELSE u,
                 IF slash >= 0 THEN SubstringFrom(u, slash) ELSE <<"/">>)
      scheme(u) ==
        IF StartsWith(u, SchemeWss) THEN authority(TRUE, SubstringFrom(u, 6))
        ELSE IF StartsWith(u, SchemeWs) THEN authority(FALSE, SubstringFrom(u, 5))
        ELSE NoParts
  IN scheme(Trim(url))

\* String::replace(find, with): every occurrence, scanning left to right
RECURSIVE ReplaceAll(_, _, _)
ReplaceAll(s, find, with) ==
  IF Len(s) < Len(find) \/ Len(find) = 0 THEN s
  ELSE IF StartsWith(s, find)
       THEN with \o ReplaceAll(SubstringFrom(s, Len(find)), find, with)
       ELSE <<Head(s)>> \o ReplaceAll(Tail(s), find, with)

\* ------------------------------------------------------------------------
\* Values the environment supplies
\* ------------------------------------------------------------------------
UrlGood == SchemeWs \o <<"h">>
UrlSecure == SchemeWss \o <<"h">>
UrlBad == <<"h">>
Token == <<"t">>
OtherToken == <<"o">>
Eap == <<"e">>

\* USER DEFAULTS of the build: all blank in the source
DEFAULT_WS_URL == << >>
DEFAULT_AUTH_TOKEN == << >>
DEFAULT_EAP_IDENTITY == << >>
DEFAULT_EAP_PASSWORD == << >>

DefaultCfg ==
  [wsUrl |-> DEFAULT_WS_URL, authToken |-> DEFAULT_AUTH_TOKEN,
   eapIdentity |-> DEFAULT_EAP_IDENTITY, eapPassword |-> DEFAULT_EAP_PASSWORD]

GoodCfg ==
  [wsUrl |-> UrlGood, authToken |-> Token, eapIdentity |-> << >>, eapPassword |-> << >>]

\* what a run of the configuration portal hands back: submitted = FALSE is
\* the empty-SSID sentinel; the field values are the raw form entries; entOk
\* and expOk are how the two connection attempts of the portal routine end:
\* the try that connects, 0 if none does
TryOutcomes == 0..WIFI_CONNECT_TRIES

\* the link connects at the first try or not at all
TryFirstOrNone == {0, 1}

PortalOutcomesOf(T) ==
  {[submitted |-> FALSE, wsUrl |-> << >>, authToken |-> << >>, eapIdentity |-> << >>,
    eapPassword |-> << >>, entOk |-> 0, expOk |-> 0]}
  \cup
  {p \in [submitted : {TRUE},
          wsUrl : {UrlGood \o <<" ">>, UrlSecure, UrlBad},
          authToken : {Token},
          eapIdentity : {<< >>, Eap},
          eapPassword : {<< >>, Eap},
          entOk : T, expOk : T] :
     \* an attempt that is never made has no outcome to choose
     /\ p.entOk > 0 => (p.eapIdentity # << >> /\ p.eapPassword # << >> /\ p.expOk = 0)
     /\ p.eapPassword # << >> <=> p.eapIdentity # << >>
     /\ p.eapIdentity # << >> => p.wsUrl # UrlSecure}

PortalOutcomes == PortalOutcomesOf(TryFirstOrNone)

PortalCancelled == CHOOSE p \in PortalOutcomes : ~p.submitted

\* inbound text frames: form "text" carries its characters in body, form
\* "json" is a payload whose first character is '{' with the outcome of
\* deserializeJson (valid) and the string members the code reads
TextMsg(b) ==
  [form |-> "text", body |-> b, valid |-> FALSE, type |-> "", url |-> << >>,
   md5 |-> << >>, chip |-> ""]

JsonMsg(valid, type, url, md5, chip) ==
  [form |-> "json", body |-> <<"{">>, valid |-> valid, type |-> type, url |-> url,
   md5 |-> md5, chip |-> chip]

TokOK == <<"O", "K">>
TokNOAUTH == <<"N", "O", "A", "U", "T", "H">>
TokOn == <<"1">>
TokOff == <<"0">>
OtaPrefix == <<"O", "T", "A", ":">>

\* URL strings of update requests, blank ones included
OtaUrls == {<< >>, <<" ">>, <<"u">>, <<" ", "u">>}

TextBodies ==
  {TokOK, TokNOAUTH, TokOn, TokOff, <<" ">> \o TokOK \o <<" ">>, <<"x">>}
  \cup {OtaPrefix \o u : u \in OtaUrls}

JsonMsgs ==
  {JsonMsg(FALSE, "", << >>, << >>, ""), JsonMsg(TRUE, "x", <<"u">>, << >>, "")}
  \cup {JsonMsg(TRUE, "ota", u, << >>, "") : u \in OtaUrls}
  \cup {JsonMsg(TRUE, "ota", <<"u">>, <<"m", " ">>, "")}
  \cup {JsonMsg(TRUE, "ota", <<"u">>, << >>, c) : c \in {"esp8266", "esp32", "other"}}

Messages == {TextMsg(b) : b \in TextBodies} \cup JsonMsgs

NoMsg == TextMsg(<< >>)
NoOta == [called |-> FALSE, url |-> << >>, md5 |-> << >>]

OtaResults == {"ok", "none", "failed"}

\* ------------------------------------------------------------------------
\* State
\* ------------------------------------------------------------------------
VARIABLES
  cfg,               \* AppConfig cfg
  disk,              \* /config.json: [present, cfg]
  fsOk,              \* LittleFS mounts
  chipId,            \* "esp8266" or "esp32": the build variant
  defWifi,           \* DEFAULT_WIFI_SSID of the build is not blank
  wifiUp,            \* WiFi.status() == WL_CONNECTED
  entMode,           \* WPA2 enterprise mode of the radio is enabled
  ws,                \* webSocket: "idle" (never begun), "connecting", "open"
  wsWasConnected,
  authFailureCount,
  lastWsAttemptMs,
  led,               \* level of LED_PIN
  now,               \* millis()
  pc,                \* position of the program in setup() / loop()
  fx,                \* calls made and lines logged by the last step, in order
  otaReq,            \* arguments of performOtaUpdate in the last step
  wsTarget,          \* arguments of webSocket.begin / beginSSL in the last step
  wsSent,            \* frames handed to webSocket.sendTXT in the last step
  ev,                \* what the last step handled
  authPending,       \* an AUTH request of the open session is unanswered
  rejRun,            \* NOAUTH frames received in a row on the open session
  rejBase,           \* authFailureCount when that run began
  lastSetupAt        \* time of the latest setupWebSocketFromConfig, Never: none lately

vars ==
  <<cfg, disk, fsOk, chipId, defWifi, wifiUp, entMode, ws, wsWasConnected,
    authFailureCount, lastWsAttemptMs, led, now, pc, fx, otaReq, wsTarget, wsSent,
    ev, authPending, rejRun, rejBase, lastSetupAt>>

\* the variables the firmware itself holds or drives
progVars ==
  <<cfg, disk, wifiUp, entMode, ws, wsWasConnected, authFailureCount,
    lastWsAttemptMs, led>>

\* the machine as one record, for the routines below
M ==
  [cfg |-> cfg, disk |-> disk, fsOk |-> fsOk, chipId |-> chipId, defWifi |-> defWifi,
   wifiUp |-> wifiUp, entMode |-> entMode, ws |-> ws, wsWasConnected |-> wsWasConnected,
   authFailureCount |-> authFailureCount, lastWsAttemptMs |-> lastWsAttemptMs,
   led |-> led, authPending |-> authPending, fx |-> << >>, otaReq |-> NoOta,
   wsTarget |-> NoParts, wsSent |-> << >>, rebooted |-> FALSE]

Fx(s, e) == [s EXCEPT !.fx = Append(@, e)]

Count(e, log) == Cardinality({i \in 1..Len(log) : log[i] = e})

\* ------------------------------------------------------------------------
\* Helpers of the firmware
\* ------------------------------------------------------------------------
setLed(s, on) == Fx([s EXCEPT !.led = on], IF on THEN "ledOn" ELSE "ledOff")

\* variant of saveConfig that reports the save and leaves the file as it is
saveConfigUnwritten(s) == Fx(s, "save")

saveConfig(s) ==
  IF s.fsOk THEN Fx([s EXCEPT !.disk = [present |-> TRUE, cfg |-> s.cfg]], "save")
  ELSE Fx(s, "saveFailed")

loadConfig(s) ==
  IF s.fsOk /\ s.disk.present THEN [s EXCEPT !.cfg = s.disk.cfg] ELSE s

hasAppConfig(s) == Len(s.cfg.wsUrl) > 0 /\ Len(s.cfg.authToken) > 0

hasEapCredentials(s) == Len(s.cfg.eapIdentity) > 0 /\ Len(s.cfg.eapPassword) > 0

\* ESP.restart(): RAM, radio and clock start over, the file system stays
Restart(s) ==
  Fx([s EXCEPT !.cfg = DefaultCfg, !.wifiUp = FALSE, !.entMode = FALSE, !.ws = "idle",
               !.wsWasConnected = FALSE, !.authFailureCount = 0,
               !.lastWsAttemptMs = Zero32, !.led = FALSE, !.authPending = FALSE,
               !.rebooted = TRUE], "restart")

\* ------------------------------------------------------------------------
\* Session event callback: WStype_DISCONNECTED, WStype_CONNECTED
\* ------------------------------------------------------------------------
\* variant of onDisconnected that also switches the LED off
onDisconnectedLedOff(s) ==
  IF s.wsWasConnected
  THEN setLed(Fx([s EXCEPT !.wsWasConnected = FALSE], "logDisconnected"), FALSE)
  ELSE setLed(s, FALSE)

\* variant of onDisconnected that logs every event
onDisconnectedAlways(s) == Fx([s EXCEPT !.wsWasConnected = FALSE], "logDisconnected")

onDisconnected(s) ==
  IF s.wsWasConnected THEN Fx([s EXCEPT !.wsWasConnected = FALSE], "logDisconnected")
  ELSE s

\* webSocket.sendTXT(frame)
sendTXT(s, frame) == [s EXCEPT !.wsSent = Append(@, frame)]

AuthPrefix == <<"A", "U", "T", "H", ":">>

\* variant of onConnected that sends the token of the build's defaults
onConnectedDefaultToken(s) ==
  sendTXT(Fx([s EXCEPT !.wsWasConnected = TRUE, !.authFailureCount = 0,
                       !.authPending = TRUE], "auth"),
          AuthPrefix \o DEFAULT_AUTH_TOKEN)

onConnected(s) ==
  sendTXT(Fx([s EXCEPT !.wsWasConnected = TRUE, !.authFailureCount = 0,
                       !.authPending = TRUE], "auth"),
          AuthPrefix \o s.cfg.authToken)

\* webSocket.disconnect(): closes an open session and reports it to the
\* callback at once; the client keeps its endpoint
wsDisconnect(s) ==
  LET t == Fx(s, "wsDisconnect")
  IN IF t.ws = "open"
     THEN onDisconnected([t EXCEPT !.ws = "connecting", !.authPending = FALSE])
     ELSE t

\* webSocket.begin / beginSSL
wsBegin(s, parts) == Fx([s EXCEPT !.ws = "connecting", !.wsTarget = parts], "begin")

\* ------------------------------------------------------------------------
\* Link attempts: n is the try, of WIFI_CONNECT_TRIES, that connects, 0 if
\* none does. connectLoop is the for loop of the three routines from try i on:
\* WiFi.begin (mark), the wait, and WiFi.disconnect(true) after a try that
\* has not connected
\* ------------------------------------------------------------------------
RECURSIVE connectLoop(_, _, _, _)
connectLoop(s, i, n, mark) ==
  IF i > WIFI_CONNECT_TRIES THEN s
  ELSE IF i = n THEN [Fx(s, mark) EXCEPT !.wifiUp = TRUE]
  ELSE connectLoop(Fx([Fx(s, mark) EXCEPT !.wifiUp = FALSE], "wifiOff"), i + 1, n, mark)

\* variant of tryConnectWifiEnterprise that leaves enterprise mode enabled
\* when every try has failed
tryConnectWifiEnterpriseStuck(s, n) ==
  LET ended(t) == Fx(t, IF t.wifiUp THEN "ent+" ELSE "ent-")
  IN ended(connectLoop(Fx([Fx([s EXCEPT !.wifiUp = FALSE], "wifiOff")
                             EXCEPT !.entMode = TRUE], "entEnable"),
                       1, n, "entTry"))

tryConnectWifiEnterprise(s, n) ==
  LET ended(t) == IF t.wifiUp THEN Fx(t, "ent+")
                  ELSE Fx(Fx([t EXCEPT !.entMode = FALSE], "entDisable"), "ent-")
  IN ended(connectLoop(Fx([Fx([s EXCEPT !.wifiUp = FALSE], "wifiOff")
                             EXCEPT !.entMode = TRUE], "entEnable"),
                       1, n, "entTry"))

tryConnectWifiExplicit(s, n) ==
  LET ended(t) == Fx(t, IF t.wifiUp THEN "exp+" ELSE "exp-")
  IN ended(connectLoop(s, 1, n, "expTry"))

tryConnectWifiSaved(s, n) ==
  LET ended(t) == Fx(t, IF t.wifiUp THEN "saved+" ELSE "saved-")
  IN ended(connectLoop(s, 1, n, "savedTry"))

\* ------------------------------------------------------------------------
\* startConfigPortalAndSave
\* ------------------------------------------------------------------------
\* variant of startConfigPortalAndSave that takes the form values and connects
\* without looking at the SSID
startConfigPortalAndSaveAlways(s, p) ==
  LET afterEnterprise(t) == IF t.wifiUp THEN t ELSE tryConnectWifiExplicit(t, p.expOk)
      connect(t) ==
        IF hasEapCredentials(t)
        THEN afterEnterprise(tryConnectWifiEnterprise(t, p.entOk))
        ELSE tryConnectWifiExplicit(t, p.expOk)
      entered(t) ==
        connect(saveConfig([t EXCEPT !.cfg =
               [wsUrl |-> Trim(p.wsUrl), authToken |-> Trim(p.authToken),
                eapIdentity |-> Trim(p.eapIdentity),
                eapPassword |-> Trim(p.eapPassword)]]))
  IN entered(setLed(Fx(s, "portal"), FALSE))

startConfigPortalAndSave(s, p) ==
  LET afterEnterprise(t) == IF t.wifiUp THEN t ELSE tryConnectWifiExplicit(t, p.expOk)
      connect(t) ==
        IF hasEapCredentials(t)
        THEN afterEnterprise(tryConnectWifiEnterprise(t, p.entOk))
        ELSE tryConnectWifiExplicit(t, p.expOk)
      entered(t) ==
        IF ~p.submitted THEN t
        ELSE connect(saveConfig([t EXCEPT !.cfg =
               [wsUrl |-> Trim(p.wsUrl), authToken |-> Trim(p.authToken),
                eapIdentity |-> Trim(p.eapIdentity),
                eapPassword |-> Trim(p.eapPassword)]]))
  IN entered(setLed(Fx(s, "portal"), FALSE))

\* ------------------------------------------------------------------------
\* OTA: performOtaUpdate, maybeHandleOtaMessage
\* ------------------------------------------------------------------------
\* res is what the update transport reports: "ok", "none" or "failed"
\* variant of performOtaUpdate that calls the transport before the session
\* is torn down and the LED is off
performOtaUpdateFirst(s, url, md5Optional, res) ==
  LET md5 == IF s.chipId = "esp8266" THEN md5Optional ELSE << >>
      ended(t) == IF res = "ok" THEN Restart(t) ELSE Fx(t, "otaNotCompleted")
  IN ended(setLed(wsDisconnect(
       Fx([Fx(s, "otaRequested") EXCEPT
             !.otaReq = [called |-> TRUE, url |-> url, md5 |-> md5]], "httpUpdate")),
       FALSE))

\* variant of performOtaUpdate that calls the transport again when it did
\* not complete
performOtaUpdateRetry(s, url, md5Optional, res) ==
  LET md5 == IF s.chipId = "esp8266" THEN md5Optional ELSE << >>
      ended(t) == IF res = "ok" THEN Restart(t)
                  ELSE Fx(Fx(t, "httpUpdate"), "otaNotCompleted")
  IN ended(Fx([setLed(wsDisconnect(Fx(s, "otaRequested")), FALSE) EXCEPT
                 !.otaReq = [called |-> TRUE, url |-> url, md5 |-> md5]],
              "httpUpdate"))

\* the checksum reaches the transport on ESP8266 only (setMD5sum, line 504);
\* the ESP32 build drops it (line 560)
performOtaUpdate(s, url, md5Optional, res) ==
  LET md5 == IF s.chipId = "esp8266" THEN md5Optional ELSE << >>
      ended(t) == IF res = "ok" THEN Restart(t) ELSE Fx(t, "otaNotCompleted")
  IN ended(Fx([setLed(wsDisconnect(Fx(s, "otaRequested")), FALSE) EXCEPT
                 !.otaReq = [called |-> TRUE, url |-> url, md5 |-> md5]],
              "httpUpdate"))

\* variant of maybeHandleOtaMessage without the empty-url check of the
\* simple form
maybeHandleOtaMessageBlankUrl(s, msg, res) ==
  IF StartsWith(msg.body, OtaPrefix)
  THEN [handled |-> TRUE,
        s |-> performOtaUpdate(s, Trim(SubstringFrom(msg.body, 4)), << >>, res)]
  ELSE IF Len(msg.body) > 0 /\ msg.body[1] = "{"
  THEN IF ~msg.valid THEN [handled |-> FALSE, s |-> s]
       ELSE IF msg.type # "ota" THEN [handled |-> FALSE, s |-> s]
       ELSE IF msg.chip # "" /\ msg.chip # s.chipId
            THEN [handled |-> TRUE, s |-> Fx(s, "otaIgnoredChip")]
       ELSE LET sUrl == Trim(msg.url)
                sMd5 == Trim(msg.md5)
            IN IF Len(sUrl) = 0 THEN [handled |-> TRUE, s |-> Fx(s, "otaMissingUrl")]
               ELSE [handled |-> TRUE, s |-> performOtaUpdate(s, sUrl, sMd5, res)]
  ELSE [handled |-> FALSE, s |-> s]

\* variant of maybeHandleOtaMessage without the chip check
maybeHandleOtaMessageAnyChip(s, msg, res) ==
  IF StartsWith(msg.body, OtaPrefix)
  THEN LET url == Trim(SubstringFrom(msg.body, 4))
       IN IF Len(url) = 0 THEN [handled |-> FALSE, s |-> s]
          ELSE [handled |-> TRUE, s |-> performOtaUpdate(s, url, << >>, res)]
  ELSE IF Len(msg.body) > 0 /\ msg.body[1] = "{"
  THEN IF ~msg.valid THEN [handled |-> FALSE, s |-> s]
       ELSE IF msg.type # "ota" THEN [handled |-> FALSE, s |-> s]
       ELSE LET sUrl == Trim(msg.url)
                sMd5 == Trim(msg.md5)
            IN IF Len(sUrl) = 0 THEN [handled |-> TRUE, s |-> Fx(s, "otaMissingUrl")]
               ELSE [handled |-> TRUE, s |-> performOtaUpdate(s, sUrl, sMd5, res)]
  ELSE [handled |-> FALSE, s |-> s]

\* variant of maybeHandleOtaMessage that does not trim the structured url
maybeHandleOtaMessageRawUrl(s, msg, res) ==
  IF StartsWith(msg.body, OtaPrefix)
  THEN LET url == Trim(SubstringFrom(msg.body, 4))
       IN IF Len(url) = 0 THEN [handled |-> FALSE, s |-> s]
          ELSE [handled |-> TRUE, s |-> performOtaUpdate(s, url, << >>, res)]
  ELSE IF Len(msg.body) > 0 /\ msg.body[1] = "{"
  THEN IF ~msg.valid THEN [handled |-> FALSE, s |-> s]
       ELSE IF msg.type # "ota" THEN [handled |-> FALSE, s |-> s]
       ELSE IF msg.chip # "" /\ msg.chip # s.chipId
            THEN [handled |-> TRUE, s |-> Fx(s, "otaIgnoredChip")]
       ELSE LET sUrl == msg.url
                sMd5 == Trim(msg.md5)
            IN IF Len(Trim(sUrl)) = 0 THEN [handled |-> TRUE, s |-> Fx(s, "otaMissingUrl")]
               ELSE [handled |-> TRUE, s |-> performOtaUpdate(s, sUrl, sMd5, res)]
  ELSE [handled |-> FALSE, s |-> s]

\* the answer is [handled, s]: handled is the bool the function returns
maybeHandleOtaMessage(s, msg, res) ==
  IF StartsWith(msg.body, OtaPrefix)
  THEN LET url == Trim(SubstringFrom(msg.body, 4))
       IN IF Len(url) = 0 THEN [handled |-> FALSE, s |-> s]
          ELSE [handled |-> TRUE, s |-> performOtaUpdate(s, url, << >>, res)]
  ELSE IF Len(msg.body) > 0 /\ msg.body[1] = "{"
  THEN IF ~msg.valid THEN [handled |-> FALSE, s |-> s]
       ELSE IF msg.type # "ota" THEN [handled |-> FALSE, s |-> s]
       ELSE IF msg.chip # "" /\ msg.chip # s.chipId
            THEN [handled |-> TRUE, s |-> Fx(s, "otaIgnoredChip")]
       ELSE LET sUrl == Trim(msg.url)
                sMd5 == Trim(msg.md5)
            IN IF Len(sUrl) = 0 THEN [handled |-> TRUE, s |-> Fx(s, "otaMissingUrl")]
               ELSE [handled |-> TRUE, s |-> performOtaUpdate(s, sUrl, sMd5, res)]
  ELSE [handled |-> FALSE, s |-> s]

\* ------------------------------------------------------------------------
\* setupWebSocketFromConfig: p is what the portal returns if it is entered
\* ------------------------------------------------------------------------
\* variant of setupWebSocketFromConfig that clears authFailureCount before it
\* parses the URL
setupWebSocketFromConfigResetFirst(s, p) ==
  LET connect(t, parts) ==
        IF parts.secure /\ t.chipId = "esp8266" THEN wsDisconnect(t)
        ELSE wsBegin(t, parts)
      session(t, parts) ==
        connect([wsDisconnect([t EXCEPT !.authFailureCount = 0])
                   EXCEPT !.wsWasConnected = FALSE], parts)
      reparsed(t, parts) == IF ~parts.ok THEN t ELSE session(t, parts)
      downgraded(t) == reparsed(t, parseWsUrl(t.cfg.wsUrl))
      parsed(t, parts) ==
        IF ~parts.ok THEN startConfigPortalAndSave(Fx(t, "badUrl"), p)
        ELSE IF t.chipId = "esp8266" /\ parts.secure
        THEN downgraded(saveConfig([t EXCEPT !.cfg.wsUrl =
                                      ReplaceAll(@, SchemeWss, SchemeWs)]))
        ELSE session(t, parts)
  IN parsed(Fx([s EXCEPT !.authFailureCount = 0], "setup"), parseWsUrl(s.cfg.wsUrl))

setupWebSocketFromConfig(s, p) ==
  LET connect(t, parts) ==
        IF parts.secure /\ t.chipId = "esp8266" THEN wsDisconnect(t)
        ELSE wsBegin(t, parts)
      session(t, parts) ==
        connect([wsDisconnect([t EXCEPT !.authFailureCount = 0])
                   EXCEPT !.wsWasConnected = FALSE], parts)
      reparsed(t, parts) == IF ~parts.ok THEN t ELSE session(t, parts)
      downgraded(t) == reparsed(t, parseWsUrl(t.cfg.wsUrl))
      parsed(t, parts) ==
        IF ~parts.ok THEN startConfigPortalAndSave(Fx(t, "badUrl"), p)
        ELSE IF t.chipId = "esp8266" /\ parts.secure
        THEN downgraded(saveConfig([t EXCEPT !.cfg.wsUrl =
                                      ReplaceAll(@, SchemeWss, SchemeWs)]))
        ELSE session(t, parts)
  IN parsed(Fx(s, "setup"), parseWsUrl(s.cfg.wsUrl))

\* the portal is entered by setupWebSocketFromConfig exactly when the URL
\* does not parse
SetupNeedsPortal(s) == ~parseWsUrl(s.cfg.wsUrl).ok

\* ------------------------------------------------------------------------
\* Session event callback: WStype_TEXT
\* ------------------------------------------------------------------------
\* payload is the raw frame, res the update transport's report, p1 and p2
\* what the portal returns on the escalation and in the session setup after it
\* variant of onAuthOk that leaves the counter as it is
onAuthOkKeepsCount(s) == Fx([s EXCEPT !.authPending = FALSE], "authOk")

\* s == "OK"
onAuthOk(s) == Fx([s EXCEPT !.authFailureCount = 0, !.authPending = FALSE], "authOk")

\* variant of onNoAuth that counts and never escalates
onNoAuthCountOnly(s, p1, p2) ==
  Fx([s EXCEPT !.authFailureCount = (@ + 1) % 256, !.authPending = FALSE], "noauth")

\* variant of onNoAuth that escalates one rejection late (> for >=)
onNoAuthLate(s, p1, p2) ==
  LET t0 == Fx([s EXCEPT !.authFailureCount = (@ + 1) % 256, !.authPending = FALSE],
               "noauth")
  IN IF t0.authFailureCount > MAX_AUTH_FAILURES
     THEN setupWebSocketFromConfig(
            startConfigPortalAndSave(
              Fx([t0 EXCEPT !.authFailureCount = 0], "tooManyAuthFailures"), p1),
            p2)
     ELSE t0

\* variant of onNoAuth that escalates one rejection early
onNoAuthEarly(s, p1, p2) ==
  LET t0 == Fx([s EXCEPT !.authFailureCount = (@ + 1) % 256, !.authPending = FALSE],
               "noauth")
  IN IF t0.authFailureCount + 1 >= MAX_AUTH_FAILURES
     THEN setupWebSocketFromConfig(
            startConfigPortalAndSave(
              Fx([t0 EXCEPT !.authFailureCount = 0], "tooManyAuthFailures"), p1),
            p2)
     ELSE t0

\* s == "NOAUTH"; authFailureCount is a uint8_t
onNoAuth(s, p1, p2) ==
  LET t0 == Fx([s EXCEPT !.authFailureCount = (@ + 1) % 256, !.authPending = FALSE],
               "noauth")
  IN IF t0.authFailureCount >= MAX_AUTH_FAILURES
     THEN setupWebSocketFromConfig(
            startConfigPortalAndSave(
              Fx([t0 EXCEPT !.authFailureCount = 0], "tooManyAuthFailures"), p1),
            p2)
     ELSE t0

\* variant of onText that switches the LED only for an authenticated session
onTextWhenAuthenticated(s, payload, res, p1, p2) ==
  LET tokens(body) ==
        IF body = TokOK THEN onAuthOk(s)
        ELSE IF body = TokNOAUTH THEN onNoAuth(s, p1, p2)
        ELSE IF s.authPending \/ s.authFailureCount > 0 THEN s
        ELSE IF body = TokOn THEN setLed(s, TRUE)
        ELSE IF body = TokOff THEN setLed(s, FALSE)
        ELSE s
      dispatched(msg, o) == IF o.handled THEN o.s ELSE tokens(msg.body)
      trimmed(msg) == dispatched(msg, maybeHandleOtaMessage(s, msg, res))
  IN trimmed([payload EXCEPT !.body = Trim(@)])

onText(s, payload, res, p1, p2) ==
  LET tokens(body) ==
        IF body = TokOK THEN onAuthOk(s)
        ELSE IF body = TokNOAUTH THEN onNoAuth(s, p1, p2)
        ELSE IF body = TokOn THEN setLed(s, TRUE)
        ELSE IF body = TokOff THEN setLed(s, FALSE)
        ELSE s
      dispatched(msg, o) == IF o.handled THEN o.s ELSE tokens(msg.body)
      trimmed(msg) == dispatched(msg, maybeHandleOtaMessage(s, msg, res))
  IN trimmed([payload EXCEPT !.body = Trim(@)])

\* ------------------------------------------------------------------------
\* Link policy chain of setup() and loop(): saved is hasSavedWiFiCreds(),
\* entOk and stdOk how the enterprise and the standard attempt end, p what
\* the portal returns if the chain reaches it
\* ------------------------------------------------------------------------
\* variant of LinkChain that tries the standard credentials before the
\* enterprise ones
LinkChainStandardFirst(s, saved, entOk, stdOk, p) ==
  LET std(t) == IF saved THEN tryConnectWifiSaved(t, stdOk)
                ELSE tryConnectWifiExplicit(t, stdOk)
      orPortal(t) == IF t.wifiUp THEN t ELSE startConfigPortalAndSave(t, p)
      afterStandard(t) ==
        IF t.wifiUp THEN t
        ELSE IF hasEapCredentials(s) THEN orPortal(tryConnectWifiEnterprise(t, entOk))
        ELSE startConfigPortalAndSave(t, p)
  IN IF saved \/ s.defWifi THEN afterStandard(std(s))
     ELSE startConfigPortalAndSave(s, p)

LinkChain(s, saved, entOk, stdOk, p) ==
  LET std(t) == IF saved THEN tryConnectWifiSaved(t, stdOk)
                ELSE tryConnectWifiExplicit(t, stdOk)
      orPortal(t) == IF t.wifiUp THEN t ELSE startConfigPortalAndSave(t, p)
      afterEnterprise(t) == IF t.wifiUp THEN t ELSE orPortal(std(t))
  IN IF saved \/ s.defWifi
     THEN IF hasEapCredentials(s)
          THEN afterEnterprise(tryConnectWifiEnterprise(s, entOk))
          ELSE orPortal(std(s))
     ELSE startConfigPortalAndSave(s, p)

\* ------------------------------------------------------------------------
\* handleSerialCommand
\* ------------------------------------------------------------------------
\* a command line: name, and for CONFIG the outcome of deserializeJson
\* (valid), the keys the document contains and their values
Cmd(name, valid, keys, vals) == [name |-> name, valid |-> valid, keys |-> keys, vals |-> vals]

SerialCmds ==
  {Cmd(n, FALSE, {}, DefaultCfg) : n \in {"PING", "REBOOT", "PORTAL"}}
  \cup {Cmd("CONFIG", FALSE, {}, DefaultCfg),
        Cmd("CONFIG", TRUE, {"wsUrl", "authToken"}, GoodCfg),
        Cmd("CONFIG", TRUE, {"wsUrl"}, [GoodCfg EXCEPT !.wsUrl = UrlBad])}

\* the command lines tried in the serial window of setup()
BootCmds == {c \in SerialCmds : c.name \in {"PING", "CONFIG"}}

handleSerialCommand(s, cmd, p1, p2) ==
  IF cmd.name = "CONFIG"
  THEN IF ~cmd.valid THEN Fx(s, "errInvalidJson")
       ELSE IF cmd.keys = {} THEN Fx(s, "noChanges")
       ELSE LET pick(k) == IF k \in cmd.keys THEN cmd.vals[k] ELSE s.cfg[k]
            IN Restart(saveConfig([s EXCEPT !.cfg =
                 [wsUrl |-> pick("wsUrl"), authToken |-> pick("authToken"),
                  eapIdentity |-> pick("eapIdentity"),
                  eapPassword |-> pick("eapPassword")]]))
  ELSE IF cmd.name = "GET_CONFIG" THEN Fx(s, "printConfig")
  ELSE IF cmd.name = "REBOOT" THEN Restart(s)
  ELSE IF cmd.name = "PORTAL"
       THEN setupWebSocketFromConfig(startConfigPortalAndSave(s, p1), p2)
  ELSE IF cmd.name = "PING" THEN Fx(s, "pong")
  ELSE s

\* ------------------------------------------------------------------------
\* Clock
\* ------------------------------------------------------------------------
ClockValues ==
  {U32(k * TickMs) : k \in 0..ClockWindow}
  \cup {U32Sub(Zero32, U32(k * TickMs)) : k \in 1..PreWrap}

\* the instants at which the tick after one at time t may read millis(): one
\* or two TickMs later, or, after a long quiet stretch, shortly before the wrap
NextClock(t) ==
  {u \in ClockValues : U32Sub(u, t) \in {U32(TickMs), U32(2 * TickMs)}}
  \cup (IF t = U32(ClockWindow * TickMs)
        THEN {U32Sub(Zero32, U32(PreWrap * TickMs))} ELSE {})

\* variant of the pacing test that takes the difference as a signed 32-bit
\* number
PacingElapsedSigned(t, last) ==
  U32Sub(t, last).hi < Half16 \div 2 /\ U32Geq(U32Sub(t, last), WS_RECONNECT_MS)

\* variant of the pacing test that waits twice as long
PacingElapsedLate(t, last) == U32Geq(U32Sub(t, last), 2 * WS_RECONNECT_MS)

\* the pacing test of loop(), in uint32_t arithmetic
PacingElapsed(t, last) == U32Geq(U32Sub(t, last), WS_RECONNECT_MS)

\* ------------------------------------------------------------------------
\* Steps
\* ------------------------------------------------------------------------
\* what a step handled: its kind, the frame of a "text" step, for a "chain"
\* step hasSavedWiFiCreds() and hasEapCredentials() as the chain saw them, and
\* authFailureCount as the step found it
Ev(kind, msg, saved, eap) ==
  [kind |-> kind, msg |-> msg, saved |-> saved, eap |-> eap, count |-> authFailureCount]

\* frame m is the token tok once trimmed
IsToken(m, tok) == m.form = "text" /\ Trim(m.body) = tok

InFx(e, log) == \E i \in 1..Len(log) : log[i] = e

\* portal outcomes (of P) worth drawing for the session setup that follows a
\* portal run p1 from machine s: it enters the portal only on an unparsable URL
SecondPortal(s, p1, P) ==
  IF ~parseWsUrl(IF p1.submitted THEN Trim(p1.wsUrl) ELSE s.cfg.wsUrl).ok
  THEN P ELSE {PortalCancelled}

\* r is the machine after the step, nextPc where the program continues, e
\* what was handled, t the time of the step
Commit(r, nextPc, e, t) ==
  /\ cfg' = r.cfg
  /\ disk' = r.disk
  /\ fsOk' = r.fsOk
  /\ chipId' = r.chipId
  /\ defWifi' = r.defWifi
  /\ wifiUp' = r.wifiUp
  /\ entMode' = r.entMode
  /\ ws' = r.ws
  /\ wsWasConnected' = r.wsWasConnected
  /\ authFailureCount' = r.authFailureCount
  /\ lastWsAttemptMs' = r.lastWsAttemptMs
  /\ led' = r.led
  /\ authPending' = r.authPending
  /\ fx' = r.fx
  /\ otaReq' = r.otaReq
  /\ wsTarget' = r.wsTarget
  /\ wsSent' = r.wsSent
  /\ ev' = e
  /\ pc' = IF r.rebooted THEN "boot" ELSE nextPc
  /\ now' = IF r.rebooted THEN Zero32 ELSE t
  /\ lastSetupAt' = IF r.rebooted THEN Never
                    ELSE IF InFx("setup", r.fx) THEN t
                    ELSE IF U32Geq(U32Sub(t, now), 2 * TickMs + 1) THEN Never
                    ELSE lastSetupAt
  /\ LET \* a run that has reached the threshold is complete
         fresh == rejRun = 0 \/ rejBase + rejRun >= MAX_AUTH_FAILURES
     IN IF e.kind = "text" /\ IsToken(e.msg, TokNOAUTH)
        THEN /\ rejRun' = IF fresh THEN 1 ELSE rejRun + 1
             /\ rejBase' = IF fresh THEN authFailureCount ELSE rejBase
        ELSE IF e.kind \in {"text", "connected", "disconnected"} \/ r.ws # "open" \/ fresh
        THEN rejRun' = 0 /\ rejBase' = 0
        ELSE UNCHANGED <<rejRun, rejBase>>

\* ---- setup() ----
\* the flash of a factory-fresh device, and of one configured in an earlier
\* run (saveConfig)
FreshDisk == [present |-> FALSE, cfg |-> DefaultCfg]

ConfiguredDisk == [present |-> TRUE, cfg |-> GoodCfg]

\* the state at power-up; builds is the set of build variants
\* [chipId, defWifi], disks what /config.json may hold
InitOf(builds, disks) ==
  /\ cfg = DefaultCfg
  /\ fsOk = TRUE
  /\ disk \in disks
  /\ \E b \in builds : chipId = b.chipId /\ defWifi = b.defWifi
  /\ wifiUp = FALSE
  /\ entMode = FALSE
  /\ ws = "idle"
  /\ wsWasConnected = FALSE
  /\ authFailureCount = 0
  /\ lastWsAttemptMs = Zero32
  /\ led = FALSE
  /\ now = Zero32
  /\ pc = "boot"
  /\ fx = << >>
  /\ otaReq = NoOta
  /\ wsTarget = NoParts
  /\ wsSent = << >>
  /\ ev = Ev("init", NoMsg, FALSE, FALSE)
  /\ authPending = FALSE
  /\ rejRun = 0
  /\ rejBase = 0
  /\ lastSetupAt = Never

\* setup(), lines 864-876: LED off, defaults, loadConfig; the radio may have
\* joined the stored network by itself (autoUp)
SetupLoad ==
  /\ pc = "boot"
  /\ \E autoUp \in BOOLEAN :
       Commit(loadConfig(setLed([M EXCEPT !.cfg = DefaultCfg, !.wifiUp = autoUp], FALSE)),
              "bootSerial", Ev("setupLoad", NoMsg, FALSE, FALSE), now)

\* setup(), lines 884-943: a command of cmds is read in the serial window
SetupSerial(cmds) ==
  /\ pc = "bootSerial"
  /\ \E cmd \in cmds :
       \E r \in {handleSerialCommand(M, cmd, PortalCancelled, PortalCancelled)} :
         Commit(IF r.rebooted THEN r ELSE loadConfig(r), "bootSerial",
                Ev("setupSerial", NoMsg, FALSE, FALSE), now)

\* setup(), lines 954-960: the window has closed; portal if no app config
SetupAppConfig(P) ==
  /\ pc = "bootSerial"
  /\ \E p \in (IF hasAppConfig(M) THEN {PortalCancelled} ELSE P) :
       Commit(IF hasAppConfig(M) THEN M ELSE startConfigPortalAndSave(M, p),
              "bootWifi", Ev("setupAppConfig", NoMsg, FALSE, FALSE), now)

\* does the chain, run from machine s, reach the portal
ChainReachesPortal(s, saved, entOk, stdOk) ==
  InFx("portal", LinkChain(s, saved, entOk, stdOk, PortalCancelled).fx)

\* the outcomes of the attempts the chain makes from machine s: an attempt
\* that is not made has no outcome to choose
ChainInputs(s, T) ==
  {c \in [saved : BOOLEAN, entOk : T, stdOk : T] :
     /\ c.entOk > 0 => (hasEapCredentials(s) /\ (c.saved \/ s.defWifi) /\ c.stdOk = 0)
     /\ c.stdOk > 0 => (c.saved \/ s.defWifi)}

\* setup(), lines 962-1015: the link policy chain if the link is not up
SetupWifi(P, T) ==
  /\ pc = "bootWifi"
  /\ IF wifiUp
     THEN Commit(M, "bootWs", Ev("setupWifiUp", NoMsg, FALSE, FALSE), now)
     ELSE \E c \in ChainInputs(M, T) :
            \E p \in (IF ChainReachesPortal(M, c.saved, c.entOk, c.stdOk)
                      THEN P ELSE {PortalCancelled}) :
              Commit(LinkChain(M, c.saved, c.entOk, c.stdOk, p), "bootWs",
                     Ev("chain", NoMsg, c.saved, hasEapCredentials(M)), now)

\* setup(), lines 1017-1018, at time t after power-up
SetupWs(P) ==
  /\ pc = "bootWs"
  /\ \E t \in {U32(TickMs), U32(2 * TickMs)} \cap ClockValues :
       \E p \in SecondPortal(M, PortalCancelled, P) :
         Commit([setupWebSocketFromConfig(M, p) EXCEPT !.lastWsAttemptMs = Zero32],
                "serial", Ev("setupWs", NoMsg, FALSE, FALSE), t)

\* ---- loop() ----
\* loop(), lines 1024-1033: no command line is waiting
LoopNoSerial ==
  /\ pc = "serial"
  /\ Commit(M, "wifi", Ev("noSerial", NoMsg, FALSE, FALSE), now)

\* loop(), lines 1024-1033: a command line of cmds is handled
LoopSerial(cmds, P) ==
  /\ pc = "serial"
  /\ \E cmd \in cmds :
       \E p1 \in (IF cmd.name = "PORTAL" THEN P ELSE {PortalCancelled}) :
         \E p2 \in (IF cmd.name = "PORTAL" THEN SecondPortal(M, p1, P)
                    ELSE {PortalCancelled}) :
           Commit(handleSerialCommand(M, cmd, p1, p2), "wifi",
                  Ev(cmd.name, NoMsg, FALSE, FALSE), now)

\* loop(), line 1035: the link is up
LoopWifiUp ==
  /\ pc = "wifi"
  /\ wifiUp
  /\ Commit(M, "poll", Ev("wifiUp", NoMsg, FALSE, FALSE), now)

\* loop(), lines 1035-1090: link loss
LoopWifiLost(P, T) ==
  /\ pc = "wifi"
  /\ ~wifiUp
  /\ LET s0 == wsDisconnect(setLed(Fx(M, "wifiLost"), FALSE))
     IN \E c \in ChainInputs(s0, T) :
          \E p1 \in (IF ChainReachesPortal(s0, c.saved, c.entOk, c.stdOk)
                     THEN P ELSE {PortalCancelled}) :
            \E p2 \in SecondPortal(s0, p1, P) :
              Commit(setupWebSocketFromConfig(
                       LinkChain(s0, c.saved, c.entOk, c.stdOk, p1), p2),
                     "poll", Ev("chain", NoMsg, c.saved, hasEapCredentials(s0)), now)

\* webSocket.loop(), line 1092: nothing to deliver
PollNone ==
  /\ pc = "poll"
  /\ Commit(M, "pace", Ev("pollNone", NoMsg, FALSE, FALSE), now)

\* webSocket.loop(): the handshake completes, WStype_CONNECTED
PollConnected ==
  /\ pc = "poll"
  /\ ws = "connecting"
  /\ wifiUp
  /\ Commit(onConnected([M EXCEPT !.ws = "open"]), "pace",
            Ev("connected", NoMsg, FALSE, FALSE), now)

\* webSocket.loop(): the session drops or a connection attempt fails,
\* WStype_DISCONNECTED
PollDisconnected ==
  /\ pc = "poll"
  /\ ws \in {"connecting", "open"}
  /\ Commit(onDisconnected([M EXCEPT !.ws = "connecting", !.authPending = FALSE]), "pace",
            Ev("disconnected", NoMsg, FALSE, FALSE), now)

\* does frame msg, handled by machine s, reach the update transport
ReachesTransport(s, msg) ==
  maybeHandleOtaMessage(s, [msg EXCEPT !.body = Trim(@)], "none").s.otaReq.called

\* does frame msg, handled by machine s, escalate to the portal
Escalates(s, msg) ==
  InFx("tooManyAuthFailures", onText(s, msg, "none", PortalCancelled, PortalCancelled).fx)

\* webSocket.loop(): a text frame of msgs arrives, WStype_TEXT
PollText(msgs, P) ==
  /\ pc = "poll"
  /\ ws = "open"
  /\ \E msg \in msgs :
       \E res \in (IF ReachesTransport(M, msg) THEN OtaResults ELSE {"none"}) :
         \E p1 \in (IF Escalates(M, msg) THEN P ELSE {PortalCancelled}) :
           \E p2 \in (IF Escalates(M, msg) THEN SecondPortal(M, p1, P)
                      ELSE {PortalCancelled}) :
             Commit(onText(M, msg, res, p1, p2), "pace", Ev("text", msg, FALSE, FALSE), now)

\* loop(), lines 1094-1100: manual reconnect pacing, millis() reads t
Pace(P) ==
  /\ pc = "pace"
  /\ \E t \in NextClock(now) :
       IF ws # "open" /\ PacingElapsed(t, lastWsAttemptMs)
       THEN \E p \in SecondPortal(M, PortalCancelled, P) :
              Commit(setupWebSocketFromConfig([M EXCEPT !.lastWsAttemptMs = t], p),
                     "serial", Ev("paceAttempt", NoMsg, FALSE, FALSE), t)
       ELSE Commit(M, "serial", Ev("paceIdle", NoMsg, FALSE, FALSE), t)

\* ---- environment ----
\* between two ticks the access point goes away / comes back (the SDK
\* rejoins by itself)
LinkDrop ==
  /\ pc = "serial"
  /\ wifiUp
  /\ Commit([M EXCEPT !.wifiUp = FALSE], pc, Ev("linkDrop", NoMsg, FALSE, FALSE), now)

LinkRestore ==
  /\ pc = "serial"
  /\ ~wifiUp
  /\ Commit([M EXCEPT !.wifiUp = TRUE], pc, Ev("linkRestore", NoMsg, FALSE, FALSE), now)

\* ------------------------------------------------------------------------
\* Spec: the firmware as built from the source (USER DEFAULTS blank) on
\* either chip, on a network without enterprise credentials
\* ------------------------------------------------------------------------
Builds == [chipId : {"esp8266", "esp32"}, defWifi : {FALSE}]

PortalsStd == {p \in PortalOutcomes : p.eapIdentity = << >>}

Init == InitOf(Builds, {FreshDisk})

Next ==
  \/ SetupLoad
  \/ SetupSerial(BootCmds)
  \/ SetupAppConfig(PortalsStd)
  \/ SetupWifi(PortalsStd, TryFirstOrNone)
  \/ SetupWs(PortalsStd)
  \/ LoopNoSerial
  \/ LoopSerial(SerialCmds, PortalsStd)
  \/ LoopWifiUp
  \/ LoopWifiLost(PortalsStd, TryFirstOrNone)
  \/ PollNone
  \/ PollConnected
  \/ PollDisconnected
  \/ PollText(Messages, PortalsStd)
  \/ Pace(PortalsStd)
  \/ LinkDrop
  \/ LinkRestore

Spec == Init /\ [][Next]_vars

TypeOK ==
  /\ authFailureCount \in 0..255
  /\ ws \in {"idle", "connecting", "open"}
  /\ now \in ClockValues
  /\ rejRun \in 0..MAX_AUTH_FAILURES

\* ------------------------------------------------------------------------
\* LinkSpec: builds with and without default link credentials, on networks
\* with enterprise credentials; the peer only switches the LED
\* ------------------------------------------------------------------------
LinkBuilds == [chipId : {"esp32"}, defWifi : BOOLEAN]

LinkCmds == {c \in SerialCmds : c.name = "PORTAL"}

LinkMessages == {TextMsg(TokOn)}

LinkInit == InitOf(LinkBuilds, {FreshDisk})

LinkNext ==
  \/ SetupLoad
  \/ SetupAppConfig(PortalOutcomes)
  \/ SetupWifi(PortalOutcomes, TryFirstOrNone)
  \/ SetupWs(PortalOutcomes)
  \/ LoopNoSerial
  \/ LoopSerial(LinkCmds, PortalOutcomes)
  \/ LoopWifiUp
  \/ LoopWifiLost(PortalOutcomes, TryFirstOrNone)
  \/ PollNone
  \/ PollConnected
  \/ PollDisconnected
  \/ PollText(LinkMessages, PortalOutcomes)
  \/ Pace(PortalOutcomes)
  \/ LinkDrop
  \/ LinkRestore

LinkSpec == LinkInit /\ [][LinkNext]_vars

\* ------------------------------------------------------------------------
\* AuthFailSpec: a configured device whose peer accepts every session and
\* answers each AUTH with one NOAUTH, never OK; the link, once up, stays
\* up; loop() keeps running
\* ------------------------------------------------------------------------
\* the peer rejects the AUTH of this session
PollReject(P) == authPending /\ PollText({TextMsg(TokNOAUTH)}, P)

AuthFailInit == InitOf(Builds, {ConfiguredDisk})

AuthFailNext ==
  \/ SetupLoad
  \/ SetupAppConfig(PortalsStd)
  \/ SetupWifi(PortalsStd, TryFirstOrNone)
  \/ SetupWs(PortalsStd)
  \/ LoopNoSerial
  \/ LoopWifiUp
  \/ LoopWifiLost(PortalsStd, TryFirstOrNone)
  \/ PollNone
  \/ PollConnected
  \/ PollDisconnected
  \/ PollReject(PortalsStd)
  \/ Pace(PortalsStd)

\* setup() and loop() never block: whatever phase the firmware is in, it
\* leaves it (every step of AuthFailNext changes pc)
Phases == {"boot", "bootSerial", "bootWifi", "bootWs", "serial", "wifi", "poll", "pace"}

Advance == pc' \in Phases \ {pc}

\* fairness: the firmware keeps running; the peer accepts a handshake that
\* is offered again and again, and answers an AUTH that stays pending
AuthFailSpec ==
  /\ AuthFailInit
  /\ [][AuthFailNext]_vars
  /\ WF_pc(Advance)
  /\ SF_vars(PollConnected)
  /\ SF_vars(PollReject(PortalsStd))

\* ------------------------------------------------------------------------
\* Reconnect pacing
\* ------------------------------------------------------------------------
\* C1: no invocation of setupWebSocketFromConfig occurs before
\* WS_RECONNECT_MS has elapsed since the prior invocation, whatever step
\* makes it (boot then first tick, link loss, escalation, PORTAL, pacing).
C1_NoEarlyAttempt ==
  [][(InFx("setup", fx') /\ lastSetupAt # Never)
       => PacingElapsed(now', lastSetupAt)]_vars

\* ------------------------------------------------------------------------
\* Authentication failures
\* ------------------------------------------------------------------------
\* the step just taken handled the NOAUTH that completed a run of
\* MAX_AUTH_FAILURES consecutive rejections counted from 0
AtThreshold ==
  /\ ev.kind = "text"
  /\ IsToken(ev.msg, TokNOAUTH)
  /\ rejBase = 0
  /\ rejRun = MAX_AUTH_FAILURES

\* C2 (as stated): at exactly MAX_AUTH_FAILURES consecutive rejections the
\* portal is entered exactly once, whatever it returns, and the counter is 0
\* immediately after.
C2_PortalExactlyOnce ==
  AtThreshold => (Count("portal", fx) = 1 /\ authFailureCount = 0)

\* C2 (amended): at exactly MAX_AUTH_FAILURES consecutive rejections the
\* counter is 0 immediately after and the portal is entered once, and once
\* more if and only if the session setup that follows finds the URL the
\* first portal left unparsable.
C2_PortalOnceOrTwice ==
  AtThreshold =>
    /\ authFailureCount = 0
    /\ InFx("tooManyAuthFailures", fx)
    /\ Count("portal", fx) = IF InFx("badUrl", fx) THEN 2 ELSE 1
    /\ InFx("badUrl", fx) <=> ~InFx("begin", fx)

C2_Witness == AtThreshold /\ Count("portal", fx) = 2

\* C3: after k consecutive rejections counted from 0, k < MAX_AUTH_FAILURES,
\* the counter equals k and no portal has been entered.
C3_BelowThreshold ==
  (ev.kind = "text" /\ IsToken(ev.msg, TokNOAUTH) /\ rejBase = 0
     /\ rejRun < MAX_AUTH_FAILURES)
    => (authFailureCount = rejRun /\ ~InFx("portal", fx) /\ ~InFx("setup", fx))

C3_Witness ==
  /\ ev.kind = "text"
  /\ IsToken(ev.msg, TokNOAUTH)
  /\ rejBase = 0
  /\ rejRun = MAX_AUTH_FAILURES - 1
  /\ authFailureCount = MAX_AUTH_FAILURES - 1

\* C4 (as stated): an OK at any counter value resets the counter and moves
\* the program into a state distinct from the one it was in while the
\* session was merely open.
C4_OkAuthenticates ==
  [][(ev'.kind = "text" /\ IsToken(ev'.msg, TokOK))
       => (authFailureCount' = 0 /\ progVars' # progVars)]_vars

\* C4 (amended): an OK at any counter value resets the counter to 0 and
\* changes nothing else: the session stays open and no other program
\* variable records the acknowledgment.
C4_OkResetsCounterOnly ==
  [][(ev'.kind = "text" /\ IsToken(ev'.msg, TokOK))
       => /\ authFailureCount' = 0
          /\ ws' = "open"
          /\ UNCHANGED <<cfg, disk, wifiUp, entMode, ws, wsWasConnected,
                         lastWsAttemptMs, led>>
          /\ fx' = <<"authOk">>]_vars

C4_Witness ==
  /\ ev.kind = "text"
  /\ IsToken(ev.msg, TokOK)
  /\ ev.count = MAX_AUTH_FAILURES - 1
  /\ authFailureCount = 0

\* C5: rejections accumulate across session reconnects: a reconnect attempt
\* made by the pacing while the link stays up (no OK, no link
\* re-establishment, no reconfiguration) leaves the counter as it is.
C5_CounterKeptAcrossReconnects ==
  [][(ev'.kind = "paceAttempt" /\ wifiUp /\ wifiUp' /\ ~InFx("portal", fx'))
       => authFailureCount' = authFailureCount]_vars

\* C6: under AuthFailSpec every rejection is eventually followed by an
\* entry into the portal.
C6_RejectionLeadsToPortal ==
  (ev.kind = "text" /\ IsToken(ev.msg, TokNOAUTH)) ~> InFx("portal", fx)

\* ------------------------------------------------------------------------
\* Link policy chain
\* ------------------------------------------------------------------------
AttemptMarks == {"ent+", "ent-", "saved+", "saved-", "exp+", "exp-"}

IsAttempt(e) == e \in AttemptMarks

\* position of the first e in log, Len(log) + 1 if there is none
FirstIdx(e, log) ==
  IF InFx(e, log)
  THEN CHOOSE i \in 1..Len(log) : log[i] = e /\ \A j \in 1..(i - 1) : log[j] # e
  ELSE Len(log) + 1

\* the attempts the chain of the last step made, in order, and whether it
\* went on to the portal (what the portal itself and the session setup
\* after the chain attempt comes later in the log)
ChainAttempts == SelectSeq(SubSeq(fx, 1, FirstIdx("portal", fx) - 1), IsAttempt)

ChainPortal == FirstIdx("portal", fx) < FirstIdx("setup", fx)

\* saved before enterprise before default
Rank(e) == IF e \in {"saved+", "saved-"} THEN 1
           ELSE IF e \in {"ent+", "ent-"} THEN 2 ELSE 3

\* C7 (as stated): every execution of the chain attempts saved, then
\* enterprise, then default credentials, stops at the first success, and
\* enters the portal only after every applicable branch has failed.
C7_SavedEnterpriseDefault ==
  ev.kind = "chain" =>
    LET a == ChainAttempts
    IN /\ \A i, j \in 1..Len(a) : i < j => Rank(a[i]) < Rank(a[j])
       /\ \A i \in 1..Len(a) : a[i] \in {"ent+", "saved+", "exp+"} => i = Len(a)
       /\ ChainPortal =>
            /\ ev.saved => InFx("saved-", a)
            /\ (ev.eap /\ (ev.saved \/ defWifi)) => InFx("ent-", a)
            /\ defWifi => InFx("exp-", a)

\* C7 (amended): every execution of the chain attempts enterprise
\* credentials first (if identity and secret are both configured), then
\* the saved credentials if there are any and the default credentials
\* otherwise, never both; with neither saved nor default credentials it
\* attempts nothing; it stops at the first success and enters the portal
\* exactly when it attempted nothing or its last attempt failed.
C7_EnterpriseThenOneStandard ==
  ev.kind = "chain" =>
    LET a == ChainAttempts
        up == IF ev.saved THEN "saved+" ELSE "exp+"
        down == IF ev.saved THEN "saved-" ELSE "exp-"
    IN /\ a \in (IF ~(ev.saved \/ defWifi) THEN {<< >>}
                 ELSE IF ev.eap THEN {<<"ent+">>, <<"ent-", up>>, <<"ent-", down>>}
                 ELSE {<<up>>, <<down>>})
       /\ ChainPortal <=> (a = << >> \/ a[Len(a)] = down)
       /\ ~InFx("portal", fx) => wifiUp

C7_Witness ==
  /\ ev.kind = "chain"
  /\ ev.saved /\ ev.eap /\ defWifi
  /\ ChainAttempts = <<"ent-", "saved-">>
  /\ ChainPortal
  /\ InFx("setup", fx)

\* ------------------------------------------------------------------------
\* Session handshake
\* ------------------------------------------------------------------------
\* C8: a handshake (webSocket.begin / beginSSL) is started only while the
\* link is up.
C8_HandshakeOnlyWhenLinkUp == InFx("begin", fx) => wifiUp

\* ------------------------------------------------------------------------
\* Update messages
\* ------------------------------------------------------------------------
\* frame m is a structured update message whose chip tag is present,
\* non-empty and not the running chip
ChipMismatch(m) ==
  /\ m.form = "json"
  /\ m.valid
  /\ m.type = "ota"
  /\ m.chip # ""
  /\ m.chip # chipId

\* C9: a structured update message with a mismatching chip tag changes no
\* program variable (session, LED, counter, configuration in RAM and on
\* disk), does not reach the update transport, and is consumed by the
\* dispatcher: its only effect is the "ignored" log line.
C9_ChipMismatchNoEffect ==
  [][(ev'.kind = "text" /\ ChipMismatch(ev'.msg))
       => /\ UNCHANGED progVars
          /\ ~otaReq'.called
          /\ fx' = <<"otaIgnoredChip">>
          /\ maybeHandleOtaMessage(M, ev'.msg, "ok").handled]_vars

C9_Witness ==
  /\ ev.kind = "text"
  /\ ChipMismatch(ev.msg)
  /\ Trim(ev.msg.url) # << >>
  /\ ws = "open"
  /\ led
  /\ ev.count > 0
  /\ authFailureCount = ev.count

\* the simple and the structured encoding of an update to url u, the
\* structured one with tag chip
SimpleOta(u) == TextMsg(OtaPrefix \o u)

StructuredOta(u, chip) == JsonMsg(TRUE, "ota", u, << >>, chip)

\* what the dispatcher makes of frame m, as the text handler hands it over
\* (trimmed), from the current state when the transport ends with res
Dispatch(m, res) == maybeHandleOtaMessage(M, [m EXCEPT !.body = Trim(@)], res)

\* the frames the comparison ranges over, where webSocket.loop() may
\* deliver one
OtaPairs == OtaUrls \X {"", chipId} \X OtaResults

RequestOf(m) ==
  IF m.form = "text"
  THEN LET rest(b) == IF StartsWith(b, OtaPrefix) THEN Trim(SubstringFrom(b, 4))
                      ELSE << >>
           simple(u) == [match |-> u # << >>, url |-> u, md5 |-> << >>]
       IN simple(rest(Trim(m.body)))
  ELSE [match |-> m.valid /\ m.type = "ota" /\ m.chip \in {"", chipId}
                    /\ Trim(m.url) # << >>,
        url |-> Trim(m.url), md5 |-> Trim(m.md5)]

\* the step just taken handled a well-formed update request
UpdateRequested == ev.kind = "text" /\ RequestOf(ev.msg).match

\* in the log of the step: teardown, then LED off, then the transport,
\* once, and nothing before it that connects the session or lights the LED
TeardownLedTransport ==
  /\ FirstIdx("wsDisconnect", fx) < FirstIdx("ledOff", fx)
  /\ FirstIdx("ledOff", fx) < FirstIdx("httpUpdate", fx)
  /\ Count("httpUpdate", fx) = 1
  /\ \A i \in 1..FirstIdx("httpUpdate", fx) :
       fx[i] \notin {"ledOn", "begin", "auth", "setup"}

\* C11 (as stated): every matched update request tears the session down,
\* then switches the LED off, then invokes the transport with the
\* message's url and its checksum.
C11_TransportGetsUrlAndChecksum ==
  UpdateRequested =>
    /\ TeardownLedTransport
    /\ otaReq = [called |-> TRUE, url |-> RequestOf(ev.msg).url,
                 md5 |-> RequestOf(ev.msg).md5]

\* C11 (amended): every matched update request tears the session down,
\* then switches the LED off, then invokes the transport with the
\* message's url; the checksum is handed to the transport on ESP8266 only,
\* the ESP32 build ignores it.
C11_ChecksumOnEsp8266Only ==
  UpdateRequested =>
    /\ TeardownLedTransport
    /\ otaReq = [called |-> TRUE, url |-> RequestOf(ev.msg).url,
                 md5 |-> IF chipId = "esp8266" THEN RequestOf(ev.msg).md5
                         ELSE << >>]

C11_Witness ==
  /\ UpdateRequested
  /\ RequestOf(ev.msg).md5 # << >>
  /\ chipId = "esp32"
  /\ otaReq.called
  /\ InFx("logDisconnected", fx)

\* C12 (as stated): when the transport reports failure or no update the
\* dispatcher neither sets the session up again nor retries, and the
\* pacing of the same tick sets the session up.
C12_ResumeOnNextTick ==
  [][/\ (UpdateRequested' /\ pc' = "pace")
          => (~InFx("setup", fx') /\ Count("httpUpdate", fx') = 1)
     /\ (UpdateRequested /\ pc = "pace" /\ pc' = "serial")
          => InFx("setup", fx')]_vars

\* C12 (amended): when the transport reports failure or no update the
\* dispatcher neither sets the session up again nor retries and the
\* session is down; the pacing that follows sets the session up exactly
\* when WS_RECONNECT_MS has elapsed since lastWsAttemptMs.
C12_ResumeWhenPacingElapsed ==
  [][/\ (UpdateRequested' /\ pc' = "pace")
          => /\ ~InFx("setup", fx')
             /\ Count("httpUpdate", fx') = 1
             /\ fx'[Len(fx')] = "otaNotCompleted"
             /\ ws' # "open"
     /\ (UpdateRequested /\ pc = "pace" /\ pc' = "serial")
          => (InFx("setup", fx') <=> PacingElapsed(now', lastWsAttemptMs))]_vars

C12_Witness ==
  /\ UpdateRequested
  /\ pc = "pace"
  /\ ws # "open"
  /\ ~PacingElapsed(now, lastWsAttemptMs)

\* frame m is a malformed update message: "OTA:" with a blank url, or a
\* payload starting with '{' that deserializeJson rejects
Malformed(m) ==
  IF m.form = "text"
  THEN StartsWith(Trim(m.body), OtaPrefix) /\ ~RequestOf(m).match
  ELSE ~m.valid

\* C13: a malformed update message is reported as no match by the
\* dispatcher and handling it changes no program variable, invokes no
\* transport and has no other effect.
C13_MalformedIgnored ==
  [][(ev'.kind = "text" /\ Malformed(ev'.msg))
       => /\ UNCHANGED progVars
          /\ ~otaReq'.called
          /\ fx' = << >>
          /\ ~Dispatch(ev'.msg, "ok").handled]_vars

C13_Witness ==
  /\ ev.kind = "text"
  /\ ev.msg = TextMsg(OtaPrefix \o <<" ">>)
  /\ ws = "open"
  /\ led
  /\ authFailureCount > 0


\* ------------------------------------------------------------------------
\* ParseSpec: an ESP32 device boots with a stored configuration whose
\* endpoint URL is any string of ParseInputs; setup() runs up to its session
\* setup, which parses the URL and hands the parts to the client
\* ------------------------------------------------------------------------
MaxTail == 4

ParseAlphabet == {"h", ":", "/", "8", "0", "x"}

ParsePorts == {<< >>, <<":", "6", "5", "5", "3", "5">>, <<":", "8", "8", "8", "8", "8">>}

ParseInputs ==
  {pre \o mid \o port :
     pre \in {SchemeWs, SchemeWss, << >>},
     mid \in UNION {[1..k -> ParseAlphabet] : k \in 0..MaxTail},
     port \in ParsePorts}

ParseDisks == {[present |-> TRUE, cfg |-> [GoodCfg EXCEPT !.wsUrl = u]] : u \in ParseInputs}

ParseInit == InitOf([chipId : {"esp32"}, defWifi : {FALSE}], ParseDisks)

ParseNext ==
  \/ SetupLoad
  \/ SetupAppConfig({PortalCancelled})
  \/ SetupWifi({PortalCancelled}, TryFirstOrNone)
  \/ SetupWs({PortalCancelled})

ParseSpec == ParseInit /\ [][ParseNext]_vars

\* the parser of the specification, section 4.1
LastIndexOf(s, ch) ==
  IF \E i \in 1..Len(s) : s[i] = ch
  THEN (CHOOSE i \in 1..Len(s) : s[i] = ch /\ \A j \in (i + 1)..Len(s) : s[j] # ch) - 1
  ELSE -1

IsInteger(s) == s # << >> /\ \A i \in 1..Len(s) : IsDigit(s[i])

ReferenceParse(raw) ==
  LET split(secure, hostPort, path) ==
        LET colon == LastIndexOf(hostPort, ":")
            host == IF colon >= 0 THEN Substring(hostPort, 0, colon) ELSE hostPort
            portText == SubstringFrom(hostPort, colon + 1)
        IN IF colon >= 0 /\ ~IsInteger(portText) THEN NoParts
           ELSE IF colon >= 0 /\ DigitsValue(portText, 0) \notin 1..PortMax THEN NoParts
           ELSE IF host = << >> THEN NoParts
           ELSE [ok |-> TRUE, secure |-> secure, host |-> host,
                 port |-> IF colon >= 0 THEN DigitsValue(portText, 0)
                          ELSE IF secure THEN 443 ELSE 80,
                 path |-> path]
      authority(secure, u) ==
        LET slash == IndexOf(u, "/")
        IN split(secure,
                 IF slash >= 0 THEN Substring(u, 0, slash) ELSE u,
                 IF slash >= 0 THEN SubstringFrom(u, slash) ELSE <<"/">>)
  IN IF StartsWith(raw, SchemeWss) THEN authority(TRUE, SubstringFrom(raw, 6))
     ELSE IF StartsWith(raw, SchemeWs) THEN authority(FALSE, SubstringFrom(raw, 5))
     ELSE NoParts

\* the session setup of setup() has just parsed the stored URL
ParsedAtSetup == ev.kind = "setupWs"

\* C14: for every URL of the bounded alphabet the parts the session setup
\* hands to the client (none on a parse failure) are the result of the
\* reference parser: scheme selects secure, split at the first '/', host-port
\* split at the last ':', default port 443 / 80, ParseError on a port that is
\* not an integer of 1..65535, on an empty host or on an unknown scheme
C14_ParseEqualsReference == ParsedAtSetup => wsTarget = ReferenceParse(cfg.wsUrl)

\* the URLs on which the two parsers cannot part: at most one ':' in
\* host-port, and a port text that is all digits or does not start with one
HostPortOf(raw) ==
  LET u == SubstringFrom(raw, IF StartsWith(raw, SchemeWss) THEN 6 ELSE 5)
  IN IF IndexOf(u, "/") >= 0 THEN Substring(u, 0, IndexOf(u, "/")) ELSE u

PlainAuthority(raw) ==
  LET plain(hp, colon) ==
        \/ colon < 0
        \/ /\ colon = LastIndexOf(hp, ":")
           /\ \/ IsInteger(SubstringFrom(hp, colon + 1))
              \/ colon + 1 = Len(hp)
              \/ ~IsDigit(hp[colon + 2])
  IN plain(HostPortOf(raw), IndexOf(HostPortOf(raw), ":"))

C14_ParseEqualsReferenceOnPlain ==
  (ParsedAtSetup /\ PlainAuthority(cfg.wsUrl)) => wsTarget = ReferenceParse(cfg.wsUrl)

\* ------------------------------------------------------------------------
\* C15
\* ------------------------------------------------------------------------
\* the text frame of this step is the LED token "1" or "0"
LedToken(m) == IsToken(m, TokOn) \/ IsToken(m, TokOff)

\* C15: whatever the authentication state of the open session, a delivered
\* "1" sets the LED on and a delivered "0" sets it off, and neither changes
\* authFailureCount, the session, the pending authentication, cfg or the
\* stored configuration
C15_TokensAlwaysApplied ==
  [][(ev'.kind = "text" /\ LedToken(ev'.msg))
       => /\ led' = IsToken(ev'.msg, TokOn)
          /\ UNCHANGED <<authFailureCount, ws, wsWasConnected, authPending, cfg, disk>>
          /\ ~otaReq'.called]_vars

\* "1" has switched the LED on after a NOAUTH below the threshold
C15_Witness ==
  /\ ev.kind = "text"
  /\ IsToken(ev.msg, TokOn)
  /\ led
  /\ ~authPending
  /\ authFailureCount = 1

\* the same before any answer to AUTH, and "0" after OK
C15_WitnessBeforeOk == ev.kind = "text" /\ IsToken(ev.msg, TokOn) /\ led /\ authPending

C15_WitnessOff ==
  /\ ev.kind = "text"
  /\ IsToken(ev.msg, TokOff)
  /\ ~led
  /\ ~authPending
  /\ authFailureCount = 0

\* ------------------------------------------------------------------------
\* C16
\* ------------------------------------------------------------------------
\* the saveConfig calls of a step, and the assignment to cfg each of them
\* follows: the portal form (after "portal", setLed(false)), the wss:// to
\* ws:// rewrite of setupWebSocketFromConfig (first thing after its entry),
\* the CONFIG command (first thing in the step)
Saves(log) == {i \in 1..Len(log) : log[i] = "save"}

SaveCause(log, i) ==
  IF i = 1 THEN "command"
  ELSE IF log[i - 1] = "setup" THEN "downgrade"
  ELSE IF i >= 3 /\ log[i - 1] = "ledOff" /\ log[i - 2] = "portal" THEN "portal"
  ELSE "other"

\* the step neither starts from power-up nor ends in a restart
Running == pc # "boot" /\ pc' # "boot"

Persisted(causes) ==
  /\ \A i \in Saves(fx') : SaveCause(fx', i) \in causes
  /\ (\E i \in Saves(fx') : SaveCause(fx', i) = "command")
       => ev'.kind \in {"CONFIG", "setupSerial"}
  /\ (\E i \in Saves(fx') : SaveCause(fx', i) = "downgrade") => chipId = "esp8266"
  /\ (Running /\ cfg' # cfg) => Saves(fx') # {}
  /\ disk' # disk => Saves(fx') # {}
  /\ (fsOk /\ Saves(fx') # {}) => disk'.present /\ (pc' # "boot" => disk'.cfg = cfg')

Cancelled(s) == startConfigPortalAndSave(s, PortalCancelled)

\* C17: a portal run that ends without a submission leaves cfg and the
\* stored configuration as they were, and the portal routine makes no link
\* connection attempt: all it does is switch the LED off
C17_CancelledPortalChangesNothing ==
  /\ Cancelled(M).fx = <<"portal", "ledOff">>
  /\ Cancelled(M) = [M EXCEPT !.led = FALSE, !.fx = <<"portal", "ledOff">>]

\* the same seen on the steps: a step whose only portal run is cancelled and
\* which is not a session setup or link chain besides
C17_CancelledPortalStep ==
  [][(ev'.kind = "setupAppConfig" /\ InFx("portal", fx') /\ ~InFx("save", fx'))
       => /\ cfg' = cfg
          /\ disk' = disk
          /\ wifiUp' = wifiUp
          /\ \A i \in 1..Len(fx') : fx'[i] \notin AttemptMarks]_vars

\* setup() has run the portal for a device without configuration, and it was
\* closed without a submission
C17_Witness ==
  /\ ev.kind = "setupAppConfig"
  /\ fx = <<"portal", "ledOff">>
  /\ ~disk.present
  /\ cfg = DefaultCfg

\* ------------------------------------------------------------------------
\* C18
\* ------------------------------------------------------------------------
\* C18: authFailureCount is within 0..MAX_AUTH_FAILURES in every reachable
\* state, whatever the order of session events, ticks and commands
C18_CounterInRange == authFailureCount \in 0..MAX_AUTH_FAILURES

\* a NOAUTH has taken the counter to the last value below the threshold
C18_Witness ==
  /\ ev.kind = "text"
  /\ IsToken(ev.msg, TokNOAUTH)
  /\ ev.count = MAX_AUTH_FAILURES - 2
  /\ authFailureCount = MAX_AUTH_FAILURES - 1

\* at the threshold the counter is back at 0 when the handler returns
C18_WitnessThreshold ==
  /\ ev.kind = "text"
  /\ IsToken(ev.msg, TokNOAUTH)
  /\ ev.count = MAX_AUTH_FAILURES - 1
  /\ authFailureCount = 0

\* ------------------------------------------------------------------------
\* ReconnectSpec: a configured device whose peer may accept, reject, drop or
\* never answer, on a link that comes and goes; the only fairness is that
\* setup() and loop() never block
\* ------------------------------------------------------------------------
ReconnectNext ==
  \/ SetupLoad
  \/ SetupAppConfig(PortalsStd)
  \/ SetupWifi(PortalsStd, TryFirstOrNone)
  \/ SetupWs(PortalsStd)
  \/ LoopNoSerial
  \/ LoopWifiUp
  \/ LoopWifiLost(PortalsStd, TryFirstOrNone)
  \/ PollNone
  \/ PollConnected
  \/ PollDisconnected
  \/ PollText({TextMsg(TokNOAUTH), TextMsg(TokOK)}, PortalsStd)
  \/ Pace(PortalsStd)
  \/ LinkDrop
  \/ LinkRestore

ReconnectSpec == AuthFailInit /\ [][ReconnectNext]_vars /\ WF_pc(Advance)

\* the step is the pacing block of loop(), lines 1094-1100
PacingStep == pc = "pace" /\ pc' = "serial"

\* the pacing block has just stamped the clock and called the session setup
PacedAttempt == ev.kind = "paceAttempt" /\ InFx("setup", fx) /\ lastWsAttemptMs = now

\* C19: at every tick whose pacing block finds the session not connected and
\* at least WS_RECONNECT_MS elapsed since lastWsAttemptMs, lastWsAttemptMs
\* becomes the current time and setupWebSocketFromConfig is called; and a
\* session that stays down from some point on is re-attempted again and again
C19_DownSessionReattempted ==
  /\ [][(/\ PacingStep
         /\ ws # "open"
         /\ U32Geq(U32Sub(now', lastWsAttemptMs), WS_RECONNECT_MS))
        => (/\ lastWsAttemptMs' = now'
            /\ fx'[1] = "setup"
            /\ ev'.kind = "paceAttempt")]_vars
  /\ (<>[](ws # "open") => []<>PacedAttempt)

\* a paced attempt, later than the first tick, that has begun a connection
C19_Witness ==
  /\ PacedAttempt
  /\ ws = "connecting"
  /\ InFx("begin", fx)
  /\ now # Zero32
  /\ lastSetupAt = now

\* ------------------------------------------------------------------------
\* RekeySpec: a configured device whose operator changes the token in the
\* portal, opened from the serial line or by an escalation; the peer accepts,
\* rejects and drops sessions as it likes
\* ------------------------------------------------------------------------
PortalsRekey ==
  {PortalCancelled}
  \cup {[PortalCancelled EXCEPT !.submitted = TRUE, !.wsUrl = UrlGood, !.authToken = k,
                                !.expOk = ok] : k \in {Token, OtherToken}, ok \in TryFirstOrNone}

RekeyNext ==
  \/ SetupLoad
  \/ SetupAppConfig(PortalsRekey)
  \/ SetupWifi(PortalsRekey, TryFirstOrNone)
  \/ SetupWs(PortalsRekey)
  \/ LoopNoSerial
  \/ LoopSerial(LinkCmds, PortalsRekey)
  \/ LoopWifiUp
  \/ LoopWifiLost(PortalsRekey, TryFirstOrNone)
  \/ PollNone
  \/ PollConnected
  \/ PollDisconnected
  \/ PollText({TextMsg(TokNOAUTH), TextMsg(TokOK), TextMsg(TokOn)}, PortalsRekey)
  \/ Pace(PortalsRekey)
  \/ LinkDrop
  \/ LinkRestore

RekeySpec == AuthFailInit /\ [][RekeyNext]_vars

\* C20: the step in which a handshake succeeds sends exactly one frame,
\* "AUTH:" followed by cfg.authToken as it is at that moment; no other step
\* sends a frame, in particular none after a NOAUTH on the same session
C20_OneAuthPerHandshake ==
  [][wsSent' = IF ev'.kind = "connected" THEN <<AuthPrefix \o cfg.authToken>> ELSE << >>]_vars

\* a session opened after the token was changed has sent the new token
C20_Witness ==
  /\ ev.kind = "connected"
  /\ cfg.authToken = OtherToken
  /\ wsSent = <<AuthPrefix \o OtherToken>>
  /\ authPending

\* a NOAUTH below the threshold has been handled on the open session and
\* nothing was sent
C20_WitnessNoResend ==
  /\ ev.kind = "text"
  /\ IsToken(ev.msg, TokNOAUTH)
  /\ ws = "open"
  /\ authFailureCount > 0
  /\ wsSent = << >>

\* ------------------------------------------------------------------------
\* C21
\* ------------------------------------------------------------------------
\* the step takes the session from connected to not connected
SessionDropped == ws = "open" /\ ws' # "open"

\* C21: a step of the running firmware that takes the session from connected
\* to not connected (peer drop, teardown on link loss, teardown for an update,
\* session setup over an open session) logs the disconnect exactly once; a
\* step that starts with the session down logs none, whatever disconnect
\* events it delivers; and the flag wsWasConnected is set exactly while the
\* session is connected
C21_OneLogPerDrop ==
  [][/\ pc' # "boot"
       => Count("logDisconnected", fx') = (IF SessionDropped THEN 1 ELSE 0)
     /\ Count("logDisconnected", fx') <= 1
     /\ wsWasConnected' <=> ws' = "open"]_vars

\* the peer has dropped an open session: one log
C21_Witness ==
  /\ ev.kind = "disconnected"
  /\ fx = <<"logDisconnected">>
  /\ ws = "connecting"
  /\ ~wsWasConnected

\* a connection attempt has failed with the session already down: no log
C21_WitnessAlreadyDown == ev.kind = "disconnected" /\ fx = << >>

\* a paced session setup, a link loss and an update have torn an open
\* session down: one log each
C21_WitnessUpdate ==
  /\ otaReq.called
  /\ Count("logDisconnected", fx) = 1
  /\ pc # "boot"

C21_WitnessLinkLoss == ev.kind = "chain" /\ Count("logDisconnected", fx) = 1

C21_WitnessSetup ==
  /\ ev.kind \in {"PORTAL", "text"}
  /\ InFx("setup", fx)
  /\ Count("logDisconnected", fx) = 1

\* ------------------------------------------------------------------------
\* TrySpec: a device configured with enterprise credentials, with and without
\* default link credentials in the build; every try of a connection routine
\* may be the one that connects
\* ------------------------------------------------------------------------
EapDisk ==
  [present |-> TRUE, cfg |-> [GoodCfg EXCEPT !.eapIdentity = Eap, !.eapPassword = Eap]]

TryPortals ==
  {p \in PortalOutcomesOf(TryOutcomes) : ~p.submitted \/ p.wsUrl = UrlGood \o <<" ">>}

TryInit == InitOf(LinkBuilds, {EapDisk})

TryNext ==
  \/ SetupLoad
  \/ SetupAppConfig(TryPortals)
  \/ SetupWifi(TryPortals, TryOutcomes)
  \/ SetupWs(TryPortals)
  \/ LoopNoSerial
  \/ LoopWifiUp
  \/ LoopWifiLost(TryPortals, TryOutcomes)
  \/ PollNone
  \/ PollConnected
  \/ Pace(TryPortals)
  \/ LinkDrop

TrySpec == TryInit /\ [][TryNext]_vars

\* the WiFi.begin calls of the three routines
TryMarks == {"entTry", "expTry", "savedTry"}

StdTryMarks == {"expTry", "savedTry"}

\* is enterprise mode enabled when entry i of log is made, before being what
\* it was when the step began
EntModeAt(log, i, before) ==
  LET sw == {j \in 1..(i - 1) : log[j] \in {"entEnable", "entDisable"}}
  IN IF sw = {} THEN before
     ELSE log[CHOOSE j \in sw : \A k \in sw : k <= j] = "entEnable"

\* entries i < j of log are tries with no try between them
NextTry(log, i, j) ==
  /\ i < j
  /\ log[i] \in TryMarks
  /\ log[j] \in TryMarks
  /\ \A k \in (i + 1)..(j - 1) : log[k] \notin TryMarks

EnterpriseExhausted(log) ==
  \A i \in 1..Len(log) : log[i] = "ent-" =>
    /\ i > 1 /\ log[i - 1] = "entDisable"
    /\ \E e \in 1..(i - 1) :
         /\ log[e] = "entEnable"
         /\ Count("entTry", SubSeq(log, e, i)) = WIFI_CONNECT_TRIES
         /\ \A k \in e..i : log[k] \notin StdTryMarks
    /\ \A j \in (i + 1)..Len(log) :
         (log[j] \in StdTryMarks /\ \A k \in (i + 1)..(j - 1) : log[k] # "entEnable")
           => ~EntModeAt(log, j, entMode)

TornDownBetweenTries(log) ==
  \A i, j \in 1..Len(log) :
    (NextTry(log, i, j) /\ log[i + 1] \notin {"ent+", "exp+", "saved+"})
      => \E k \in (i + 1)..(j - 1) : log[k] = "wifiOff"

\* C22: an enterprise attempt that fails has made all WIFI_CONNECT_TRIES
\* tries and disables enterprise mode as its last act, so the standard tries
\* that follow it are made with enterprise mode disabled; and after every try
\* that does not connect the link is torn down (WiFi.disconnect(true)) before
\* the next try
C22_EnterpriseDisabledBeforeFallback ==
  [][EnterpriseExhausted(fx') /\ TornDownBetweenTries(fx')
     /\ (InFx("ent-", fx') /\ ~InFx("ent+", fx') => ~entMode')]_vars

\* the chain has exhausted the enterprise tries and connected with the saved
\* credentials at the third try
C22_Witness ==
  /\ ev.kind = "chain"
  /\ Count("entTry", fx) = WIFI_CONNECT_TRIES
  /\ FirstIdx("ent-", fx) < FirstIdx("savedTry", fx)
  /\ Count("savedTry", fx) = 3
  /\ InFx("saved+", fx)
  /\ ~entMode
  /\ wifiUp

\* ------------------------------------------------------------------------
\* C23
\* ------------------------------------------------------------------------
\* the entries of log from the first "badUrl" on: what an invocation of
\* setupWebSocketFromConfig that finds the URL unparsable does, and what the
\* step does after it
FromBadUrl(log) == SubSeq(log, FirstIdx("badUrl", log), Len(log))

\* C23: a session setup that finds cfg.wsUrl unparsable enters the portal
\* once and returns: it begins no handshake, does not touch the session,
\* does not restart and is not followed by another session setup in the same
\* step; authFailureCount is what it was before the invocation (the step
\* changes it only if it is the NOAUTH escalation, which has set it to 0
\* before)
C23_BadUrlGoesToPortal ==
  [][InFx("badUrl", fx') =>
       /\ Count("badUrl", fx') = 1
       /\ fx'[FirstIdx("badUrl", fx') - 1] = "setup"
       /\ SubSeq(FromBadUrl(fx'), 1, 3) = <<"badUrl", "portal", "ledOff">>
       /\ Count("portal", FromBadUrl(fx')) = 1
       /\ \A k \in 1..Len(FromBadUrl(fx')) :
            FromBadUrl(fx')[k] \notin {"begin", "setup", "wsDisconnect", "auth", "restart"}
       /\ pc' # "boot"
       /\ authFailureCount' = (IF ev'.kind = "text" THEN 0 ELSE authFailureCount)
       /\ ev'.kind \in {"paceAttempt", "setupWs"}
            => ws' = ws /\ wsWasConnected' = wsWasConnected]_vars

\* the operator has entered an unparsable URL in the portal while a session
\* with one rejection was open: the session setup went to the portal again
\* and left counter and session alone
C23_Witness ==
  /\ ev.kind = "PORTAL"
  /\ InFx("badUrl", fx)
  /\ authFailureCount = 1
  /\ ws = "open"

\* a paced attempt has found the URL unparsable
C23_WitnessPaced == ev.kind = "paceAttempt" /\ InFx("badUrl", fx) /\ Count("portal", fx) = 1

\* ------------------------------------------------------------------------
\* C24
\* ------------------------------------------------------------------------
\* C24: no try of tryConnectWifiSaved or tryConnectWifiExplicit is made
\* while WPA2 enterprise mode is enabled
C24_NoStandardTryInEnterpriseMode ==
  [][\A j \in 1..Len(fx') :
       fx'[j] \in StdTryMarks => ~EntModeAt(fx', j, entMode)]_vars

\* the same for the attempts the link chain makes when the link is lost
C24_NoStandardTryInEnterpriseModeChain ==
  [][ev'.kind = "chain" =>
       \A j \in 1..Len(fx') :
         (fx'[j] \in StdTryMarks /\ j < FirstIdx("portal", fx'))
           => ~EntModeAt(fx', j, entMode)]_vars

\* ------------------------------------------------------------------------
\* C25
\* ------------------------------------------------------------------------
\* what may switch the LED off in the step just taken: detected link loss,
\* the start of the portal, the start of an update, the token "0", and the
\* restart of the device
LedOffCause ==
  \/ InFx("wifiLost", fx')
  \/ InFx("portal", fx')
  \/ otaReq'.called
  \/ ev'.kind = "text" /\ IsToken(ev'.msg, TokOff)
  \/ pc' = "boot"
  \/ pc = "boot"

\* C25: a disconnect event leaves the LED as it is, and so does a paced
\* session setup that does not enter the portal; the LED goes off only on
\* detected link loss, at the start of the portal, at the start of an update,
\* on "0" or with a restart, and goes on only on "1"
C25_DropKeepsLed ==
  [][/\ ev'.kind = "disconnected" => led' = led
     /\ (ev'.kind = "paceAttempt" /\ ~InFx("portal", fx')) => led' = led
     /\ (led /\ ~led') => LedOffCause
     /\ (~led /\ led') => (ev'.kind = "text" /\ IsToken(ev'.msg, TokOn))]_vars

\* the LED is on while the session, dropped with the link up, is attempted
\* again by the pacing
C25_Witness ==
  /\ ev.kind = "paceAttempt"
  /\ InFx("begin", fx)
  /\ led
  /\ wifiUp
  /\ ws = "connecting"

\* the peer has dropped the session and the LED is still on
C25_WitnessDrop == ev.kind = "disconnected" /\ InFx("logDisconnected", fx) /\ led

\* ------------------------------------------------------------------------
\* C26
\* ------------------------------------------------------------------------
\* millis() has wrapped since lastWsAttemptMs was stamped: the clock reads
\* less than the stamp
Wrapped(t, last) == t.hi < last.hi \/ (t.hi = last.hi /\ t.lo < last.lo)

\* C26: the pacing block attempts exactly when the session is not connected
\* and (now - lastWsAttemptMs) mod 2^32 >= WS_RECONNECT_MS, and stamps
\* lastWsAttemptMs exactly then, also when millis() has wrapped since the
\* stamp; and a session that is down when the clock has wrapped past the
\* stamp is attempted again (or connects by itself): no stall
C26_PacingAcrossWrap ==
  /\ [][PacingStep =>
         /\ ev'.kind = "paceAttempt"
              <=> (ws # "open" /\ U32Geq(U32Sub(now', lastWsAttemptMs), WS_RECONNECT_MS))
         /\ lastWsAttemptMs' = (IF ev'.kind = "paceAttempt" THEN now' ELSE lastWsAttemptMs)
         /\ Count("setup", fx') = (IF ev'.kind = "paceAttempt" THEN 1 ELSE 0)]_vars
  /\ ((ws # "open" /\ Wrapped(now, lastWsAttemptMs)) ~> (ws = "open" \/ PacedAttempt))

\* a paced attempt one tick into the window after the wrap: the stamp it
\* found was made before the wrap
C26_Witness ==
  /\ PacedAttempt
  /\ now = U32(TickMs)
  /\ InFx("begin", fx)

\* no burst: the tick right after the wrap, half an interval after an
\* attempt stamped before the wrap, has made no attempt
C26_WitnessNoBurst ==
  /\ ev.kind = "paceIdle"
  /\ ws # "open"
  /\ now = Zero32
  /\ lastWsAttemptMs = U32Sub(Zero32, U32(TickMs))

\* an attempt at the first tick after the wrap can only have found a stamp
\* from before the wrap
C26_AttemptAfterWrap ==
  [][(PacingStep /\ ev'.kind = "paceAttempt" /\ now' = U32(TickMs))
       => Wrapped(now', lastWsAttemptMs)]_vars
====
